---- MODULE Spec2Model ----
(***************************************************************************)
(* A model of the supervisord configuration store (Config, ConfigEntry,    *)
(* ProcessGroup), of the reload path of the Supervisor (Reload,            *)
(* createPrograms, ReloadConfig, Restart) and of the group diff            *)
(* (ProcessGroup.Sub).                                                     *)
(*                                                                         *)
(* Strings are sequences of tokens.  A token is a piece of literal text or *)
(* one of the placeholders of the expression evaluator; the section        *)
(* prefixes "program:", "eventlistener:" and "group:" are one token each,  *)
(* so that strings.HasPrefix is a test of the first token.                 *)
(***************************************************************************)
EXTENDS Integers, Sequences, FiniteSets, TLC

\* ------------------------------------------------------------------ bounds

\* the largest numprocs a section of the modelled files carries
MaxProcs == 2
\* the number of loads of the sequential load specification
MaxLoads == 2

\* ----------------------------------------------------------------- strings

PROGRAM == "program:"
EVENTLISTENER == "eventlistener:"
GROUP == "group:"
PNUM == "%(process_num)"
PNAME == "%(program_name)"
GNAME == "%(group_name)"
HERE == "%(here)"
NOBIND == "%(undefined)"
Placeholders == {PNUM, PNAME, GNAME, HERE, NOBIND}

EmptyMap == [x \in {} |-> <<>>]

Put(f, k, v) == [x \in DOMAIN f \cup {k} |-> IF x = k THEN v ELSE f[x]]

Range(s) == {s[i] : i \in DOMAIN s}

\* strings.HasPrefix(s, pfx) for one of the three section prefixes
HasPrefix(s, pfx) == Len(s) >= 1 /\ s[1] = pfx

\* s[len(prefix):]
TrimPrefix(s) == SubSeq(s, 2, Len(s))

\* strconv.Atoi / Key.Int on the numbers the files carry
Atoi(s) ==
    IF Len(s) = 1 /\ \E n \in 0..(MaxProcs + 1) : s[1] = ToString(n)
    THEN [err |-> FALSE, n |-> CHOOSE n \in 0..(MaxProcs + 1) : s[1] = ToString(n)]
    ELSE [err |-> TRUE, n |-> 0]

\* fmt.Sprintf("%d", i)
Itoa(i) == <<ToString(i)>>

RECURSIVE Subst(_, _)
Subst(bind, s) ==
    IF s = <<>> THEN <<>>
    ELSE (IF Head(s) \in DOMAIN bind THEN bind[Head(s)] ELSE <<Head(s)>>)
         \o Subst(bind, Tail(s))

\* StringExpression.Eval: every placeholder is replaced by its binding, the
\* binding is not scanned again; a placeholder without a binding is an error.
Eval(bind, s) ==
    IF \E i \in 1..Len(s) : s[i] \in Placeholders \ DOMAIN bind
    THEN [err |-> TRUE, val |-> <<>>]
    ELSE [err |-> FALSE, val |-> Subst(bind, s)]

RECURSIVE Split(_, _)
\* strings.Split(s, sep): the pieces between the separators, "" gives [""]
Split(s, sep) ==
    IF \A i \in 1..Len(s) : s[i] # sep THEN <<s>>
    ELSE LET i == CHOOSE j \in 1..Len(s) :
                      s[j] = sep /\ \A k \in 1..(j - 1) : s[k] # sep
         IN  <<SubSeq(s, 1, i - 1)>> \o Split(SubSeq(s, i + 1, Len(s)), sep)

\* the directory of the configuration file
ConfigFileDir == <<"/etc">>

\* ------------------------------------------------------------ ini sections

\* Section.NewKey: sets the key, replacing the value of an existing one
NewKey(sec, k, v) == [sec EXCEPT !.keys = Put(@, k, v)]

\* Section.GetKey: the value, or an error when the section has no such key
GetKey(sec, k) ==
    IF k \in DOMAIN sec.keys THEN [err |-> FALSE, val |-> sec.keys[k]]
    ELSE [err |-> TRUE, val |-> <<>>]

\* Section.Key: the key, created with an empty value when it is missing
Key(sec, k) == IF k \in DOMAIN sec.keys THEN sec ELSE NewKey(sec, k, <<>>)

\* ------------------------------------------------------------ ProcessGroup

NewProcessGroup == EmptyMap

\* ProcessGroup.Add
Add(pg, group, procName) == Put(pg, procName, group)

\* ProcessGroup.GetGroup: the group of procName; a program without a group
\* is put in defGroup.  Returns the group and the updated mapping.
GetGroup(pg, procName, defGroup) ==
    IF procName \in DOMAIN pg THEN [group |-> pg[procName], pg |-> pg]
    ELSE [group |-> defGroup, pg |-> Put(pg, procName, defGroup)]

\* ProcessGroup.Clone
Clone(pg) == [k \in DOMAIN pg |-> pg[k]]

\* ProcessGroup.Remove
Remove(pg, procName) == [k \in DOMAIN pg \ {procName} |-> pg[k]]

\* ProcessGroup.GetAllGroup: the groups some process is mapped to.  The
\* order of the list is the order Go ranges over a map in; the list holds no
\* group twice and is modelled as a set.
GetAllGroup(pg) == {pg[k] : k \in DOMAIN pg}

\* ProcessGroup.GetAllProcess: the processes mapped to group, as a set
GetAllProcess(pg, group) == {k \in DOMAIN pg : pg[k] = group}

\* util.Sub: the elements of arr1 that are not in arr2
UtilSub(arr1, arr2) == arr1 \ arr2

\* util.IsSameStringArray: the same strings, whatever their order
IsSameStringArray(arr1, arr2) == arr1 = arr2

\* ProcessGroup.Sub without its test len(proc2) > 0
SubWithoutLen(pg, other) ==
    LET thisGroup == GetAllGroup(pg)
        otherGroup == GetAllGroup(other)
    IN  [added |-> UtilSub(thisGroup, otherGroup),
         changed |-> {group \in thisGroup :
                         ~IsSameStringArray(GetAllProcess(pg, group),
                                            GetAllProcess(other, group))},
         removed |-> UtilSub(otherGroup, thisGroup)]

\* ProcessGroup.Sub with removed computed as added is
SubRemovedAsAdded(pg, other) ==
    LET thisGroup == GetAllGroup(pg)
        otherGroup == GetAllGroup(other)
    IN  [added |-> UtilSub(thisGroup, otherGroup),
         changed |-> {group \in thisGroup :
                         LET proc1 == GetAllProcess(pg, group)
                             proc2 == GetAllProcess(other, group)
                         IN  Cardinality(proc2) > 0 /\ ~IsSameStringArray(proc1, proc2)},
         removed |-> UtilSub(thisGroup, otherGroup)]

\* ProcessGroup.Sub
Sub(pg, other) ==
    LET thisGroup == GetAllGroup(pg)
        otherGroup == GetAllGroup(other)
    IN  [added |-> UtilSub(thisGroup, otherGroup),
         changed |-> {group \in thisGroup :
                         LET proc1 == GetAllProcess(pg, group)
                             proc2 == GetAllProcess(other, group)
                         IN  Cardinality(proc2) > 0 /\ ~IsSameStringArray(proc1, proc2)},
         removed |-> UtilSub(otherGroup, thisGroup)]

\* ------------------------------------------------------------- ConfigEntry

\* NewConfigEntry; sec is a history field: the section the entry was last
\* parsed from
NewConfigEntry == [Group |-> <<>>, Name |-> <<>>, keyValues |-> EmptyMap, sec |-> <<>>]

IsProgram(e) == HasPrefix(e.Name, PROGRAM)
IsEventListener(e) == HasPrefix(e.Name, EVENTLISTENER)
IsGroup(e) == HasPrefix(e.Name, GROUP)

GetProgramName(e) == IF IsProgram(e) THEN TrimPrefix(e.Name) ELSE <<>>
GetGroupName(e) == IF IsGroup(e) THEN TrimPrefix(e.Name) ELSE <<>>

\* ConfigEntry.GetStringArray
GetStringArray(e, k, sep) ==
    IF k \in DOMAIN e.keyValues THEN Split(e.keyValues[k], sep) ELSE <<>>

\* ConfigEntry.GetPrograms: the programs of a group entry
EntryGetPrograms(e) == IF IsGroup(e) THEN GetStringArray(e, "programs", ",") ELSE <<>>

\* ConfigEntry.GetString
GetString(e, k, defValue) ==
    IF k \in DOMAIN e.keyValues
    THEN LET r == Eval(HERE :> ConfigFileDir, e.keyValues[k])
         IN  IF r.err THEN defValue ELSE r.val
    ELSE defValue

\* ConfigEntry.parse: the name of the section, and every key of the section
\* over the keys the entry holds already
EntryParse(e, section) ==
    [e EXCEPT !.Name = section.name,
              !.sec = section.name,
              !.keyValues = [k \in DOMAIN @ \cup DOMAIN section.keys |->
                                IF k \in DOMAIN section.keys THEN section.keys[k]
                                ELSE @[k]]]

\* ------------------------------------------------------------------ Config
\* A Config c is [entries, programGroup]: the entries by key and the
\* program-to-group mapping.

NewConfig == [entries |-> EmptyMap, programGroup |-> NewProcessGroup]

\* Config.createEntry: a new entry under name unless there is one already
createEntry(c, name) ==
    IF name \in DOMAIN c.entries THEN c
    ELSE [c EXCEPT !.entries = Put(@, name, NewConfigEntry)]

RECURSIVE AddAll(_, _, _)
AddAll(pg, group, programs) ==
    IF programs = <<>> THEN pg
    ELSE AddAll(Add(pg, group, Head(programs)), group, Tail(programs))

\* Config.parseGroup, the body of the loop for one section
parseGroupSection(c, section) ==
    IF HasPrefix(section.name, GROUP)
    THEN LET c1 == createEntry(c, section.name)
             entry == EntryParse(c1.entries[section.name], section)
         IN  [entries |-> Put(c1.entries, section.name, entry),
              programGroup |-> AddAll(c1.programGroup, GetGroupName(entry),
                                      EntryGetPrograms(entry))]
    ELSE c

\* Config.isProgramOrEventListener
isProgramOrEventListener(section) ==
    IF HasPrefix(section.name, PROGRAM) THEN [is |-> TRUE, prefix |-> PROGRAM]
    ELSE IF HasPrefix(section.name, EVENTLISTENER)
         THEN [is |-> TRUE, prefix |-> EVENTLISTENER]
         ELSE [is |-> FALSE, prefix |-> ""]

\* the bindings of one instance of a program
Envs(programName, i, group) ==
    (PNAME :> programName) @@ (PNUM :> Itoa(i)) @@ (GNAME :> group)
    @@ (HERE :> ConfigFileDir)

RECURSIVE parseInstances(_, _, _, _, _)
\* Config.parseProgram, the loop over the instances i..numProcs of a section.
\* r is [c, section]: the section is changed by the NewKey calls, and the
\* command evaluated is the value the section holds at that moment.
parseInstances(r, prefix, originalProcName, i, numProcs) ==
    IF i > numProcs THEN r
    ELSE
    LET programName == TrimPrefix(r.section.name)
        g1 == GetGroup(r.c.programGroup, programName, programName)
        envs == Envs(programName, i, g1.group)
        c1 == [r.c EXCEPT !.programGroup = g1.pg]
        s1 == Key(r.section, "command")
        cmd == Eval(envs, s1.keys["command"])
        s2 == NewKey(s1, "command", cmd.val)
        procName == Eval(envs, originalProcName)
        s3 == NewKey(NewKey(NewKey(s2, "process_name", procName.val),
                            "numprocs_start", Itoa(i - 1)),
                     "process_num", Itoa(i))
        c2 == createEntry(c1, procName.val)
        entry == [EntryParse(c2.entries[procName.val], s3) EXCEPT
                     !.Name = <<prefix>> \o procName.val,
                     !.Group = g1.group]
        next == IF cmd.err THEN [c |-> c1, section |-> s1]
                ELSE IF procName.err THEN [c |-> c1, section |-> s2]
                ELSE [c |-> [c2 EXCEPT !.entries = Put(@, procName.val, entry)],
                      section |-> s3]
    IN  parseInstances(next, prefix, originalProcName, i + 1, numProcs)

\* Config.parseProgram, the body of the loop for one section.  Returns
\* [c, section, panic]: the section is changed by the NewKey calls, and the
\* call panics on the nil key it dereferences when numprocs > 1 and the
\* section has no process_name.
parseProgramSection(c, section) ==
    LET pe == isProgramOrEventListener(section)
        s1 == Key(section, "numprocs")
        n == Atoi(s1.keys["numprocs"])
        numProcs == IF n.err THEN 1 ELSE n.n
        programName == TrimPrefix(section.name)
        procNameKey == GetKey(s1, "process_name")
        originalProcName == IF procNameKey.err THEN programName ELSE procNameKey.val
    IN  IF ~pe.is THEN [c |-> c, section |-> section, panic |-> FALSE]
        ELSE IF numProcs > 1 /\ procNameKey.err
             THEN [c |-> c, section |-> s1, panic |-> TRUE]
             ELSE LET r == parseInstances([c |-> c, section |-> s1], pe.prefix,
                                          originalProcName, 1, numProcs)
                  IN  [c |-> r.c, section |-> r.section, panic |-> FALSE]

\* Config.parse, the body of the last loop for one section
parseOtherSection(c, section) ==
    IF ~HasPrefix(section.name, GROUP) /\ ~HasPrefix(section.name, PROGRAM)
    THEN LET c1 == createEntry(c, section.name)
         IN  [c1 EXCEPT !.entries =
                 Put(@, section.name, EntryParse(c1.entries[section.name], section))]
    ELSE c

\* One step of Config.parse on the sections cfg: pass 1 is parseGroup, pass 2
\* parseProgram, pass 3 the loop of parse itself; i is the section's index.
parseStep(c, cfg, pass, i) ==
    IF pass = 1 THEN [c |-> parseGroupSection(c, cfg[i]), cfg |-> cfg, panic |-> FALSE]
    ELSE IF pass = 2
         THEN LET r == parseProgramSection(c, cfg[i])
              IN  [c |-> r.c, cfg |-> [cfg EXCEPT ![i] = r.section], panic |-> r.panic]
         ELSE [c |-> parseOtherSection(c, cfg[i]), cfg |-> cfg, panic |-> FALSE]

RECURSIVE parseFrom(_, _, _)
\* Config.parse from step (pass, i) on; r is [c, cfg, panic]
parseFrom(r, pass, i) ==
    IF r.panic \/ pass > 3 THEN r
    ELSE IF i > Len(r.cfg) THEN parseFrom(r, pass + 1, 1)
         ELSE parseFrom(parseStep(r.c, r.cfg, pass, i), pass, i + 1)

\* Config.parse
parse(c, cfg) == parseFrom([c |-> c, cfg |-> cfg, panic |-> FALSE], 1, 1)

\* Config.GetEntries(filter), as the set of the keys of the entries
ProgramKeys(c) == {k \in DOMAIN c.entries : IsProgram(c.entries[k])}
EventListenerKeys(c) == {k \in DOMAIN c.entries : IsEventListener(c.entries[k])}

\* the names Config.GetProgramNames returns, as a set
ProgramNameSet(c) == {GetProgramName(c.entries[k]) : k \in ProgramKeys(c)}

\* ------------------------------------------------------------------- files
\* The sections of the modelled configuration files.  go-ini's DEFAULT
\* section holds no key in them and is left out.

Sec(name, keys) == [name |-> name, keys |-> keys]

Plain(prefix, nm) == Sec(<<prefix, nm>>, [command |-> <<"run">>])

\* numprocs = n, named by program name and process number
Template(prefix, nm, n) ==
    Sec(<<prefix, nm>>, [command |-> <<"run", PNUM>>, numprocs |-> Itoa(n),
                         process_name |-> <<PNAME, "_", PNUM>>])

\* numprocs = n and a process_name without the process_num placeholder
NoPlaceholder(nm, n) ==
    Sec(<<PROGRAM, nm>>, [command |-> <<"run">>, numprocs |-> Itoa(n),
                          process_name |-> <<"w">>])

\* numprocs = n and no process_name
NoProcessName(nm, n) ==
    Sec(<<PROGRAM, nm>>, [command |-> <<"run">>, numprocs |-> Itoa(n)])

\* a command with a placeholder that has no binding
BadCommand(nm) == Sec(<<PROGRAM, nm>>, [command |-> <<"run", NOBIND>>])

GroupOf(g, programs) == Sec(<<GROUP, g>>, [programs |-> programs])

Supervisord(id) == Sec(<<"supervisord">>, [identifier |-> <<id>>])

InetHttpServer == Sec(<<"inet_http_server">>, [port |-> <<":9001">>])

\* a section without a prefix whose name is the name of a program
Bare(nm) == Sec(<<nm>>, [x |-> <<"1">>])

ProgramSecsA ==
    {Plain(PROGRAM, "a"), BadCommand("a")}
    \cup {Template(PROGRAM, "a", n) : n \in 1..MaxProcs}
    \cup {NoPlaceholder("a", n) : n \in 2..MaxProcs}
    \cup {NoProcessName("a", n) : n \in 2..MaxProcs}
ListenerSecsA ==
    {Plain(EVENTLISTENER, "a")} \cup {Template(EVENTLISTENER, "a", n) : n \in 2..MaxProcs}
ProgramSecsB == {Plain(PROGRAM, "b")}
GroupSecs == {GroupOf("g", <<"a">>), GroupOf("g", <<"a", ",", "b">>), GroupOf("h", <<"a">>)}
OtherSecs ==
    {Supervisord("id1"), Sec(<<"supervisord">>, [logfile |-> <<"log">>]), Bare("a")}

\* the files of the sequential load specification: one section, or two
\* sections in either order
LoadFiles ==
    {<<s>> : s \in ProgramSecsA \cup ListenerSecsA \cup ProgramSecsB \cup GroupSecs \cup OtherSecs}
    \cup {<<s, t>> : s \in ProgramSecsA \cup ListenerSecsA, t \in GroupSecs \cup OtherSecs \cup ProgramSecsB}
    \cup {<<t, s>> : s \in ProgramSecsA \cup ListenerSecsA, t \in GroupSecs \cup OtherSecs \cup ProgramSecsB}

\* ------------------------------------------------------------------- state

\* the processes that run Reload: main, and the handlers of ReloadConfig
main == "main"
Handlers == {"h1", "h2"}
Procs == {main} \cup Handlers

VARIABLES
    entries,        \* Config.entries
    programGroup,   \* Config.programGroup
    procs,          \* ProcessManager: the names of its processes
    running,        \* ProcessManager: the processes that have been started
    restarting,     \* Supervisor.restarting
    httpUp,         \* the XML-RPC server has been started
    daemon,         \* "up", or "panic" / "exit" once the daemon has ended
    pc,             \* per process: its place in Reload / ReloadConfig
    prevPrograms,   \* per process: prevPrograms of Reload
    cfg,            \* per process: cfg of Config.Load
    pos,            \* per process: the pass and section Config.parse is at
    err,            \* per process: err of Reload
    reply,          \* per handler: the reply of ReloadConfig
    base,           \* history: the program names when the parse that is
                    \* running began
    seen,           \* history: what the last step read of the store, if it
                    \* read it while another process parsed
    reconciled,     \* history: what the last step did, if it was the
                    \* reconciliation of Reload
    lastCfg,        \* history: the sections of the file of the last load
    nLoads,         \* history: the number of loads made
    inc,            \* history: the include pattern of the last load, the
                    \* files there were, and what getIncludeFiles returned
    pgThis,         \* group diff: the new ProcessGroup
    pgOther,        \* group diff: the old ProcessGroup
    diff,           \* group diff: the result of pgThis.Sub(pgOther)
    runtime,        \* ProcessManager: its processes, by name, with the group,
                    \* the state and whether the program can be started
    rpc,            \* history: the last lifecycle call and its reply
    shut,           \* Shutdown: the place of the handler, reply.Ret, the
                    \* goroutine that exits, and whether the stop was made
    wire,           \* client: the body of the reply to supervisor.reloadConfig
    decoded,        \* client: what XMLRPCClient.ReloadConfig made of it
    call            \* client: the operation called and what its post met

configVars == <<entries, programGroup>>
mgrVars == <<procs, running>>
localVars == <<pc, prevPrograms, cfg, pos, err, reply>>
historyVars == <<base, seen, reconciled>>
loadVars == <<lastCfg, nLoads, inc>>
diffVars == <<pgThis, pgOther, diff>>
rpcVars == <<runtime, rpc, shut>>
clientVars == <<wire, decoded, call>>
vars == <<configVars, mgrVars, restarting, httpUp, daemon, localVars,
          historyVars, loadVars, diffVars, rpcVars, clientVars>>

config == [entries |-> entries, programGroup |-> programGroup]

\* a file: whether it can be read and parsed, and its sections
File(sections) == [ok |-> TRUE, sections |-> sections]
Unreadable == [ok |-> FALSE, sections |-> <<>>]
NoBase == [valid |-> FALSE, names |-> {}]
NoSeen == [valid |-> FALSE, names |-> {}, pre |-> {}, post |-> {}]
NoReconciled ==
    [valid |-> FALSE, alone |-> FALSE, cfg |-> <<>>, prevPrograms |-> <<>>,
     programs |-> {}, removedPrograms |-> <<>>, removeCalls |-> <<>>,
     created |-> {}]
NoDiff == [done |-> FALSE, added |-> {}, changed |-> {}, removed |-> {}]
NoReply == [Success |-> FALSE, err |-> FALSE, sent |-> FALSE]

\* the state of a Supervisor before its first Reload, with every process idle
DaemonIdle ==
    /\ entries = NewConfig.entries
    /\ programGroup = NewConfig.programGroup
    /\ procs = {}
    /\ running = {}
    /\ restarting = FALSE
    /\ httpUp = FALSE
    /\ daemon = "up"
    /\ prevPrograms = [p \in Procs |-> <<>>]
    /\ cfg = [p \in Procs |-> <<>>]
    /\ pos = [p \in Procs |-> [pass |-> 1, i |-> 1]]
    /\ err = [p \in Procs |-> FALSE]
    /\ reply = [p \in Procs |-> NoReply]
    /\ base = [valid |-> TRUE, names |-> {}]
    /\ seen = NoSeen
    /\ reconciled = NoReconciled

NoSignal == [name |-> "none", sig |-> "", err |-> FALSE]
NoRpc ==
    [op |-> "none", pc |-> "idle", name |-> <<>>, sig |-> NoSignal, err |-> FALSE,
     notRunning |-> FALSE, Success |-> FALSE,
     issued |-> {}, order |-> <<>>, infos |-> <<>>, results |-> <<>>]
NoShut == [pc |-> "idle", Ret |-> FALSE, exiter |-> "none", stopped |-> FALSE]
NoDecoded ==
    [pc |-> "idle", k |-> 1, j |-> 1, i |-> -1, hasValue |-> FALSE,
     AddedGroup |-> <<>>, ChangedGroup |-> <<>>, RemovedGroup |-> <<>>,
     err |-> FALSE]

NoInc == [done |-> FALSE, pattern |-> <<>>, tree |-> {}, files |-> <<>>]
LoadIdle == lastCfg = <<>> /\ nLoads = 0 /\ inc = NoInc
DiffIdle == pgThis = NewProcessGroup /\ pgOther = NewProcessGroup /\ diff = NoDiff
RpcIdle == runtime = EmptyMap /\ rpc = NoRpc /\ shut = NoShut
NoCall == [op |-> "none", url |-> "http", failure |-> "none", status |-> 200]
ClientIdle == wire = <<>> /\ decoded = NoDecoded /\ call = NoCall

\* --------------------------------------------- the sequential load of files

LoadInit ==
    /\ DaemonIdle
    /\ pc = [p \in Procs |-> "idle"]
    /\ LoadIdle
    /\ DiffIdle
    /\ RpcIdle
    /\ ClientIdle

\* Config.Load of a readable file: ini.Load, then parse
LoadFile(f) ==
    /\ daemon = "up"
    /\ nLoads < MaxLoads
    /\ LET r == parse(config, f)
       IN  /\ entries' = r.c.entries
           /\ programGroup' = r.c.programGroup
           /\ daemon' = IF r.panic THEN "panic" ELSE "up"
    /\ lastCfg' = f
    /\ nLoads' = nLoads + 1
    /\ UNCHANGED inc
    /\ UNCHANGED <<mgrVars, restarting, httpUp, localVars, historyVars, diffVars,
                   rpcVars, clientVars>>

LoadNext == \E f \in LoadFiles : LoadFile(f)

LoadSpec == LoadInit /\ [][LoadNext]_vars

\* ------------------------------------------ the diff of two ProcessGroups

SubPrograms == {<<"a">>, <<"b">>, <<"c">>}
SubGroups == {<<"g">>, <<"h">>, <<"k">>}

SubInit ==
    /\ DaemonIdle
    /\ pc = [p \in Procs |-> "idle"]
    /\ LoadIdle
    /\ DiffIdle
    /\ RpcIdle
    /\ ClientIdle

\* pgThis.Add(group, procName)
AddThis(group, procName) ==
    /\ pgThis' = Add(pgThis, group, procName)
    /\ diff' = NoDiff
    /\ UNCHANGED pgOther

\* pgOther.Add(group, procName)
AddOther(group, procName) ==
    /\ pgOther' = Add(pgOther, group, procName)
    /\ diff' = NoDiff
    /\ UNCHANGED pgThis

\* pgThis.Remove(procName)
RemoveThis(procName) ==
    /\ procName \in DOMAIN pgThis
    /\ pgThis' = Remove(pgThis, procName)
    /\ diff' = NoDiff
    /\ UNCHANGED pgOther

\* pgOther = pgThis.Clone()
CloneThis ==
    /\ pgOther' = Clone(pgThis)
    /\ pgOther' # pgOther
    /\ diff' = NoDiff
    /\ UNCHANGED pgThis

\* added, changed, removed = pgThis.Sub(pgOther)
SubThis ==
    /\ ~diff.done
    /\ LET r == Sub(pgThis, pgOther)
       IN  diff' = [done |-> TRUE, added |-> r.added, changed |-> r.changed,
                    removed |-> r.removed]
    /\ UNCHANGED <<pgThis, pgOther>>

SubNext ==
    /\ \/ \E group \in SubGroups, procName \in SubPrograms : AddThis(group, procName)
       \/ \E group \in SubGroups, procName \in SubPrograms : AddOther(group, procName)
       \/ \E procName \in SubPrograms : RemoveThis(procName)
       \/ CloneThis
       \/ SubThis
    /\ UNCHANGED <<configVars, mgrVars, restarting, httpUp, daemon, localVars,
                   historyVars, loadVars, rpcVars, clientVars>>

SubSpec == SubInit /\ [][SubNext]_vars

\* C6: whatever the new ProcessGroup pgThis and the old one pgOther, the
\* lists added, changed and removed of pgThis.Sub(pgOther) have no group in
\* common, two by two.
C6_SubDisjoint ==
    diff.done =>
        /\ diff.added \cap diff.changed = {}
        /\ diff.added \cap diff.removed = {}
        /\ diff.changed \cap diff.removed = {}

\* a Sub that returned a group in each of its three lists
C6_Witness ==
    diff.done /\ diff.added # {} /\ diff.changed # {} /\ diff.removed # {}

\* the groups of a ProcessGroup and the members of one, read off the mapping
GroupsIn(pg) == {g \in SubGroups : \E k \in DOMAIN pg : pg[k] = g}
MembersIn(pg, g) == {k \in SubPrograms : k \in DOMAIN pg /\ pg[k] = g}

\* C7: pgThis.Sub(pgOther) returns as added the groups of pgThis alone, as
\* removed the groups of pgOther alone, and as changed the groups of both
\* whose sets of members differ; a group of both with the same members is in
\* none of the lists.
C7_SubClassifies ==
    diff.done =>
        /\ diff.added = GroupsIn(pgThis) \ GroupsIn(pgOther)
        /\ diff.removed = GroupsIn(pgOther) \ GroupsIn(pgThis)
        /\ diff.changed = {g \in GroupsIn(pgThis) \cap GroupsIn(pgOther) :
                               MembersIn(pgThis, g) # MembersIn(pgOther, g)}

\* a Sub of two ProcessGroups with a group of the same members in both, a
\* group of other members in both, and a group of pgOther alone
C7_Witness ==
    /\ diff.done
    /\ diff.changed # {}
    /\ diff.removed # {}
    /\ \E g \in GroupsIn(pgThis) \cap GroupsIn(pgOther) :
          MembersIn(pgThis, g) = MembersIn(pgOther, g)

\* ----------------------------------------------- the expansion of a section

SectionsOf(f) == Range(f)

\* numProcs as parseProgram reads it
NumProcsOf(section) ==
    LET n == Atoi(Key(section, "numprocs").keys["numprocs"])
    IN  IF n.err THEN 1 ELSE n.n

\* the name of instance i of a section, from the section as the file has it
InstanceName(section, i) ==
    LET programName == TrimPrefix(section.name)
        k == GetKey(section, "process_name")
    IN  Eval(Envs(programName, i, programName),
             IF k.err THEN programName ELSE k.val).val

\* a section as the spec asks for it: its process_name carries the
\* process_num placeholder when numprocs > 1, and its expressions evaluate
WellFormed(section) ==
    /\ isProgramOrEventListener(section).is
    /\ NumProcsOf(section) >= 1
    /\ NOBIND \notin Range(Key(section, "command").keys["command"])
    /\ NumProcsOf(section) > 1 =>
          /\ "process_name" \in DOMAIN section.keys
          /\ PNUM \in Range(section.keys["process_name"])
          /\ NOBIND \notin Range(section.keys["process_name"])

\* no other section of the file f is stored under a name of section's instances
Alone(f, section) ==
    \A other \in SectionsOf(f) \ {section} :
        \A i \in 1..NumProcsOf(section) :
            /\ other.name # InstanceName(section, i)
            /\ isProgramOrEventListener(other).is =>
                  \A j \in 1..NumProcsOf(other) :
                      InstanceName(other, j) # InstanceName(section, i)

\* the entries of the store that are programs or event listeners and come
\* from the section named name
EntriesOf(name) ==
    {k \in DOMAIN entries :
        /\ entries[k].sec = name
        /\ IsProgram(entries[k]) \/ IsEventListener(entries[k])}

\* C8: after the first load of a file, every well-formed program: or
\* eventlistener: section with numprocs = N has exactly N entries in the
\* store, with process_num 1..N, numprocs_start = process_num - 1 and
\* pairwise distinct names.
C8_ExactlyNEntries ==
    (nLoads = 1 /\ daemon = "up") =>
        \A section \in SectionsOf(lastCfg) :
            (WellFormed(section) /\ Alone(lastCfg, section)) =>
                LET N == NumProcsOf(section)
                    E == EntriesOf(section.name)
                IN  /\ Cardinality(E) = N
                    /\ {entries[k].keyValues["process_num"] : k \in E}
                          = {Itoa(i) : i \in 1..N}
                    /\ \A k \in E :
                          entries[k].keyValues["numprocs_start"]
                             = Itoa(Atoi(entries[k].keyValues["process_num"]).n - 1)
                    /\ \A k1, k2 \in E :
                          entries[k1].Name = entries[k2].Name => k1 = k2

\* C9: after the first load of a file, the command of instance i of a
\* well-formed section with numprocs = N is the command of the file
\* evaluated with process_num = i, for every i in 1..N.
C9_CommandPerInstance ==
    (nLoads = 1 /\ daemon = "up") =>
        \A section \in SectionsOf(lastCfg) :
            (WellFormed(section) /\ Alone(lastCfg, section)) =>
                \A i \in 1..NumProcsOf(section) :
                    LET programName == TrimPrefix(section.name)
                        name == InstanceName(section, i)
                        envs == Envs(programName, i, programGroup[programName])
                    IN  /\ name \in DOMAIN entries
                        /\ entries[name].keyValues["command"]
                              = Eval(envs, section.keys["command"]).val

\* ------------------------------------------------------- the daemon's files
\* A disk is the root file (its sections, or Unreadable) and the files
\* Config.getIncludeFiles finds for it, each its sections or Unreadable.

Include == Sec(<<"include">>, [files |-> <<"*.ini">>])

Disks ==
    { [root |-> File(<<InetHttpServer, Plain(PROGRAM, "a"), Plain(PROGRAM, "b")>>),
       includes |-> <<>>],
      [root |-> File(<<Include>>), includes |-> <<File(<<Plain(PROGRAM, "a")>>)>>],
      [root |-> File(<<Bare("a"), Bare("b")>>), includes |-> <<>>],
      [root |-> Unreadable, includes |-> <<>>],
      [root |-> File(<<Include>>),
       includes |-> <<File(<<Plain(PROGRAM, "a")>>), Unreadable>>] }

\* ------------------------------------------------------------ the Supervisor

\* the orders a list of the elements of S can have
Perms(S) == {s \in [1..Cardinality(S) -> S] : Range(s) = S}

\* Config.GetProgramNames: the names of the program entries, in the order
\* sortProgram gives them, which this model leaves open
GetProgramNames(c) == Perms(ProgramNameSet(c))

\* Supervisor.GetSupervisorId
GetSupervisorId(c) ==
    IF <<"supervisord">> \in DOMAIN c.entries
    THEN GetString(c.entries[<<"supervisord">>], "identifier", <<"supervisor">>)
    ELSE <<"supervisor">>

\* sub with each kept element put in front of the result
subPrepend(arr_1, arr_2) ==
    LET RECURSIVE from(_, _)
        from(arr, result) ==
            IF arr = <<>> THEN result
            ELSE LET s == Head(arr)
                     exist == \E j \in 1..Len(arr_2) : arr_2[j] = s
                 IN  from(Tail(arr), IF exist THEN result ELSE <<s>> \o result)
    IN  from(arr_1, <<>>)

RECURSIVE subFrom(_, _, _)
subFrom(arr_1, arr_2, result) ==
    IF arr_1 = <<>> THEN result
    ELSE LET s == Head(arr_1)
             exist == \E j \in 1..Len(arr_2) : arr_2[j] = s
         IN  subFrom(Tail(arr_1), arr_2, IF exist THEN result ELSE Append(result, s))

\* sub: the elements of arr_1 that are not in arr_2, in the order of arr_1
sub(arr_1, arr_2) == subFrom(arr_1, arr_2, <<>>)

\* the name the ProcessManager keeps the process of an entry under
ProcName(e) == TrimPrefix(e.Name)

\* createPrograms with CreateProcess called for the new programs only
createProgramsNew(c, prev) ==
    {ProcName(c.entries[k]) : k \in ProgramKeys(c)} \ Range(prev)

\* createPrograms: the names CreateProcess is called for, one call for each
\* entry of Config.GetPrograms; prev is prevPrograms
createProgramsCalls(c, prev) == {ProcName(c.entries[k]) : k \in ProgramKeys(c)}

\* whether a pass of Config.parse acts on a section
Acts(pass, section) ==
    IF pass = 1 THEN HasPrefix(section.name, GROUP)
    ELSE IF pass = 2 THEN isProgramOrEventListener(section).is
    ELSE ~HasPrefix(section.name, GROUP) /\ ~HasPrefix(section.name, PROGRAM)

RECURSIVE NextPos(_, _, _)
\* the first step of Config.parse from (pass, i) on that acts on its section;
\* pass 4 when there is none
NextPos(sections, pass, i) ==
    IF pass > 3 THEN [pass |-> 4, i |-> 1]
    ELSE IF i > Len(sections) THEN NextPos(sections, pass + 1, 1)
    ELSE IF Acts(pass, sections[i]) THEN [pass |-> pass, i |-> i]
    ELSE NextPos(sections, pass, i + 1)

RECURSIVE Flatten(_)
Flatten(files) ==
    IF files = <<>> THEN <<>> ELSE Head(files).sections \o Flatten(Tail(files))

\* the processes inside Config.parse
Parsing == {q \in Procs : pc[q] = "parse"}

\* the processes on the path from Config.Load to the end of createPrograms
Loading == {q \in Procs : pc[q] \in {"Load", "parse", "reconcile"}}

Init ==
    /\ DaemonIdle
    /\ pc = [p \in Procs |-> IF p = main THEN "Reload" ELSE "idle"]
    /\ LoadIdle
    /\ DiffIdle
    /\ RpcIdle
    /\ ClientIdle

\* the records of the last step are those of the last step only
Forget == seen' = NoSeen /\ reconciled' = NoReconciled

\* the locals of Reload are gone
DropLocals(p) ==
    /\ prevPrograms' = [prevPrograms EXCEPT ![p] = <<>>]
    /\ cfg' = [cfg EXCEPT ![p] = <<>>]
    /\ pos' = [pos EXCEPT ![p] = [pass |-> 1, i |-> 1]]

\* a client calls supervisor.reloadConfig and handler h takes the call
ReloadConfig(h) ==
    /\ daemon = "up" /\ httpUp
    /\ pc[h] = "idle"
    /\ pc' = [pc EXCEPT ![h] = "Reload"]
    /\ reply' = [reply EXCEPT ![h] = NoReply]
    /\ Forget
    /\ UNCHANGED <<configVars, mgrVars, restarting, httpUp, daemon, prevPrograms,
                   cfg, pos, err, base, loadVars, diffVars,
                   rpcVars, clientVars>>

\* Reload: prevPrograms := s.config.GetProgramNames()
ReloadPrev(p) ==
    /\ daemon = "up"
    /\ pc[p] = "Reload"
    /\ \E names \in GetProgramNames(config) :
          /\ prevPrograms' = [prevPrograms EXCEPT ![p] = names]
          /\ seen' =
                IF base.valid /\ \E q \in Procs : Parsing = {q}
                THEN LET q == CHOOSE q \in Procs : Parsing = {q}
                         rest == parseFrom([c |-> config, cfg |-> cfg[q],
                                            panic |-> FALSE], pos[q].pass, pos[q].i)
                     IN  [valid |-> TRUE, names |-> Range(names),
                          pre |-> base.names, post |-> ProgramNameSet(rest.c)]
                ELSE NoSeen
    /\ reconciled' = NoReconciled
    /\ pc' = [pc EXCEPT ![p] = "Load"]
    /\ UNCHANGED <<configVars, mgrVars, restarting, httpUp, daemon, cfg, pos, err,
                   reply, base, loadVars, diffVars,
                   rpcVars, clientVars>>

\* Load with parse run on the root file before the include files are appended
LoadParsesRoot(p, disk) ==
    /\ daemon = "up"
    /\ pc[p] = "Load"
    /\ IF ~disk.root.ok \/ \E j \in 1..Len(disk.includes) : ~disk.includes[j].ok
       THEN /\ err' = [err EXCEPT ![p] = TRUE]
            /\ pc' = [pc EXCEPT ![p] = "Return"]
            /\ DropLocals(p)
            /\ LET r == parse(config, disk.root.sections)
               IN  entries' = r.c.entries /\ programGroup' = r.c.programGroup
            /\ UNCHANGED base
       ELSE LET sections == disk.root.sections \o Flatten(disk.includes)
                first == NextPos(sections, 1, 1)
            IN  /\ cfg' = [cfg EXCEPT ![p] = sections]
                /\ pos' = [pos EXCEPT ![p] = first]
                /\ pc' = [pc EXCEPT ![p] = IF first.pass > 3 THEN "reconcile"
                                            ELSE "parse"]
                /\ base' = IF first.pass > 3 THEN base
                           ELSE IF Parsing = {}
                                THEN [valid |-> TRUE, names |-> ProgramNameSet(config)]
                                ELSE NoBase
                /\ UNCHANGED <<configVars, prevPrograms, err>>
    /\ Forget
    /\ UNCHANGED <<mgrVars, restarting, httpUp, daemon, reply, loadVars, diffVars,
                   rpcVars, clientVars>>

\* Reload: err := s.config.Load(), up to the call of parse, with disk the
\* files as they are at that moment.  ini.Load of the root file and Append
\* of every include file; the first file that cannot be read or parsed ends
\* Load with the error.
Load(p, disk) ==
    /\ daemon = "up"
    /\ pc[p] = "Load"
    /\ IF ~disk.root.ok \/ \E j \in 1..Len(disk.includes) : ~disk.includes[j].ok
       THEN /\ err' = [err EXCEPT ![p] = TRUE]
            /\ pc' = [pc EXCEPT ![p] = "Return"]
            /\ DropLocals(p)
            /\ UNCHANGED <<configVars, base>>
       ELSE LET sections == disk.root.sections \o Flatten(disk.includes)
                first == NextPos(sections, 1, 1)
            IN  /\ cfg' = [cfg EXCEPT ![p] = sections]
                /\ pos' = [pos EXCEPT ![p] = first]
                /\ pc' = [pc EXCEPT ![p] = IF first.pass > 3 THEN "reconcile"
                                            ELSE "parse"]
                /\ base' = IF first.pass > 3 THEN base
                           ELSE IF Parsing = {}
                                THEN [valid |-> TRUE, names |-> ProgramNameSet(config)]
                                ELSE NoBase
                /\ UNCHANGED <<configVars, prevPrograms, err>>
    /\ Forget
    /\ UNCHANGED <<mgrVars, restarting, httpUp, daemon, reply, loadVars, diffVars,
                   rpcVars, clientVars>>

ReloadLoad(p) == \E disk \in Disks : Load(p, disk)

\* Config.parse: one section in one of its three loops
ReloadParse(p) ==
    /\ daemon = "up"
    /\ pc[p] = "parse"
    /\ LET r == parseStep(config, cfg[p], pos[p].pass, pos[p].i)
           next == NextPos(r.cfg, pos[p].pass, pos[p].i + 1)
       IN  /\ entries' = r.c.entries
           /\ programGroup' = r.c.programGroup
           /\ cfg' = [cfg EXCEPT ![p] = r.cfg]
           /\ daemon' = IF r.panic THEN "panic" ELSE "up"
           /\ pos' = [pos EXCEPT ![p] = next]
           /\ pc' = [pc EXCEPT ![p] = IF next.pass > 3 THEN "reconcile" ELSE "parse"]
           /\ base' = IF next.pass > 3 /\ Parsing = {p}
                      THEN [valid |-> TRUE, names |-> ProgramNameSet(r.c)]
                      ELSE base
    /\ Forget
    /\ UNCHANGED <<mgrVars, restarting, httpUp, prevPrograms, err, reply,
                   loadVars, diffVars,
                   rpcVars, clientVars>>

\* Reload after a Load without error: startEventListeners, restarting =
\* false, createPrograms(prevPrograms), startHttpServer,
\* startAutoStartPrograms.  CreateProcess adds a process under the name of
\* its entry, Remove takes one away, StartAutoStartPrograms starts them.
\* The calls are taken as one step: how two reconciliations interleave
\* inside the ProcessManager is not modelled.
ReloadReconcile(p) ==
    /\ daemon = "up"
    /\ pc[p] = "reconcile"
    /\ \E programs \in GetProgramNames(config) :
          LET listeners == {ProcName(entries[k]) : k \in EventListenerKeys(config)}
              progs == createProgramsCalls(config, prevPrograms[p])
              removedPrograms == sub(prevPrograms[p], programs)
              left == (procs \cup listeners \cup progs) \ Range(removedPrograms)
          IN  /\ reconciled' =
                    [valid |-> TRUE, alone |-> Loading = {p}, cfg |-> cfg[p],
                     prevPrograms |-> prevPrograms[p], programs |-> Range(programs),
                     removedPrograms |-> removedPrograms,
                     removeCalls |-> removedPrograms,
                     created |-> listeners \cup progs]
              /\ procs' = left
              /\ running' = left
    /\ restarting' = FALSE
    /\ httpUp' = (httpUp \/ (/\ <<"inet_http_server">> \in DOMAIN entries
                             /\ GetString(entries[<<"inet_http_server">>], "port", <<>>)
                                   # <<>>))
    /\ pc' = [pc EXCEPT ![p] = "poll"]
    /\ DropLocals(p)
    /\ seen' = NoSeen
    /\ UNCHANGED <<configVars, daemon, err, reply, base, loadVars, diffVars,
                   rpcVars, clientVars>>

\* Reload, the loop: if s.IsRestarting() { StopAllProcesses; break }
ReloadPoll(p) ==
    /\ daemon = "up"
    /\ pc[p] = "poll"
    /\ IF restarting
       THEN /\ running' = {}
            /\ pc' = [pc EXCEPT ![p] = "Return"]
       ELSE /\ pc' = [pc EXCEPT ![p] = "sleep"]
            /\ UNCHANGED running
    /\ Forget
    /\ UNCHANGED <<configVars, procs, restarting, httpUp, daemon, prevPrograms,
                   cfg, pos, err, reply, base, loadVars, diffVars,
                   rpcVars, clientVars>>

\* Reload, the loop: time.Sleep(10 * time.Second)
ReloadSleep(p) ==
    /\ daemon = "up"
    /\ pc[p] = "sleep"
    /\ pc' = [pc EXCEPT ![p] = "poll"]
    /\ Forget
    /\ UNCHANGED <<configVars, mgrVars, restarting, httpUp, daemon, prevPrograms,
                   cfg, pos, err, reply, base, loadVars, diffVars,
                   rpcVars, clientVars>>

\* Reload returns err.  In a handler ReloadConfig sets reply.Success and
\* returns, and the handler is free for the next call; main panics on an
\* error and ends the daemon otherwise.
ReloadReturn(p) ==
    /\ daemon = "up"
    /\ pc[p] = "Return"
    /\ pc' = [pc EXCEPT ![p] = "idle"]
    /\ IF p = main
       THEN /\ daemon' = IF err[p] THEN "panic" ELSE "exit"
            /\ UNCHANGED reply
       ELSE /\ reply' = [reply EXCEPT ![p] =
                  [Success |-> ~err[p], err |-> err[p], sent |-> TRUE]]
            /\ UNCHANGED daemon
    /\ err' = [err EXCEPT ![p] = FALSE]
    /\ Forget
    /\ UNCHANGED <<configVars, mgrVars, restarting, httpUp, prevPrograms, cfg,
                   pos, base, loadVars, diffVars,
                   rpcVars, clientVars>>

\* Supervisor.Restart
Restart ==
    /\ daemon = "up" /\ httpUp
    /\ restarting' = TRUE
    /\ Forget
    /\ UNCHANGED <<configVars, mgrVars, httpUp, daemon, localVars, base,
                   loadVars, diffVars,
                   rpcVars, clientVars>>

\* a step of Reload by process p
Step(p) ==
    \/ ReloadPrev(p)
    \/ ReloadLoad(p)
    \/ ReloadParse(p)
    \/ ReloadReconcile(p)
    \/ ReloadPoll(p)
    \/ ReloadSleep(p)
    \/ ReloadReturn(p)

Next ==
    \/ \E p \in Procs : Step(p)
    \/ \E h \in Handlers : ReloadConfig(h)
    \/ Restart

Spec == Init /\ [][Next]_vars

\* the daemon with one client, which makes one call at a time: handler h1
\* takes its calls
SeqNext ==
    \/ Step(main)
    \/ Step("h1")
    \/ ReloadConfig("h1")
    \/ Restart

SeqSpec == Init /\ [][SeqNext]_vars

\* every process that can take a step of Reload takes one in the end; the
\* client and the operator need not do anything
SeqFairSpec == SeqSpec /\ WF_vars(Step(main)) /\ WF_vars(Step("h1"))

\* ------------------------------------------------------------------- reload

\* C1: when a Reload has loaded a file and reconciled, every program of its
\* previous program list that has no program section in the file is out of
\* the program names of the store, is in removedPrograms, and has had Remove
\* called for it.
C1_DeletedProgramTornDown ==
    (reconciled.valid /\ reconciled.alone) =>
        \A j \in 1..Len(reconciled.prevPrograms) :
            LET P == reconciled.prevPrograms[j]
            IN  (\A i \in 1..Len(reconciled.cfg) :
                     reconciled.cfg[i].name # <<PROGRAM>> \o P) =>
                    /\ P \notin reconciled.programs
                    /\ P \in Range(reconciled.removedPrograms)
                    /\ P \in Range(reconciled.removeCalls)

\* C2: the step of Reload in which Config.Load fails leaves the entries, the
\* programGroup and the processes of the ProcessManager as they are and goes
\* to the return of the error, and the handler that returns the error
\* replies Success = false.
C2_LoadFailureChangesNothing ==
    /\ [][\A p \in Procs :
              (pc[p] = "Load" /\ err'[p]) =>
                  /\ UNCHANGED <<entries, programGroup, procs, running>>
                  /\ pc'[p] = "Return"]_vars
    /\ [][\A h \in Handlers :
              (pc[h] = "Return" /\ err[h] /\ pc'[h] # "Return") =>
                  (reply'[h].sent /\ reply'[h].err /\ ~reply'[h].Success)]_vars
    /\ [](\A h \in Handlers : (reply[h].sent /\ reply[h].err) => ~reply[h].Success)

\* a handler has replied to a ReloadConfig whose Load failed, with programs
\* in the store
C2_Witness ==
    \E h \in Handlers :
        reply[h].sent /\ reply[h].err /\ ProgramNameSet(config) # {}

\* C3: a handler that has taken a ReloadConfig call replies in the end, as
\* long as the daemon is up, whatever the other clients do.
C3_ReloadConfigReturns ==
    \A h \in Handlers : (pc[h] = "Reload") ~> (reply[h].sent \/ daemon # "up")

\* the processes inside Config.Load or between it and the end of
\* createPrograms
InProgress == {q \in Procs : pc[q] \in {"parse", "reconcile"}}

\* C4: at most one process is inside Config.Load or between it and the end
\* of createPrograms.
C4_OneLoadAtATime == Cardinality(InProgress) <= 1

\* C5: the program names a handler reads while one other process is in
\* Config.parse are the names as they were before that parse or the names
\* as they are after it.
C5_NoTornSnapshot == seen.valid => seen.names \in {seen.pre, seen.post}

\* C10: removedPrograms is the previous program list without the names that
\* are in the program names of the store, in the order of the previous list,
\* and Remove is called for the names of removedPrograms, one after the
\* other.
C10_RemovalList ==
    reconciled.valid =>
        /\ reconciled.removedPrograms
              = SelectSeq(reconciled.prevPrograms,
                          LAMBDA n : n \notin reconciled.programs)
        /\ reconciled.removeCalls = reconciled.removedPrograms

\* a reconciliation that removed two programs
C10_Witness == reconciled.valid /\ Len(reconciled.removedPrograms) = 2

\* C11: a reconciliation calls CreateProcess for every program of the
\* store, those of the previous program list included.
C11_CreateEveryProgram ==
    reconciled.valid => reconciled.programs \subseteq reconciled.created

\* a reconciliation that called CreateProcess for a program of the previous
\* program list and for one that was not in it
C11_Witness ==
    /\ reconciled.valid
    /\ reconciled.created \cap Range(reconciled.prevPrograms) # {}
    /\ reconciled.programs \ Range(reconciled.prevPrograms) # {}

\* the processes whose loop has seen the restart flag and has stopped every
\* process: Reload is about to return nil
Observed == {p \in Procs : pc[p] = "Return" /\ ~err[p]}

\* C16: once Restart has set the restart flag, the loop of a Reload sees the
\* flag and stops every process in the end, as long as the daemon is up,
\* whatever ReloadConfig calls are made meanwhile.
C16_RestartNeverLost ==
    restarting ~> (Observed # {} \/ daemon # "up")

\* C17: the caller to which Reload returns after its loop has seen the
\* restart flag calls Reload again.
C17_RestartFollowedByLoad ==
    [][\A p \in Procs :
          (p \in Observed /\ pc'[p] # "Return") => pc'[p] = "Reload"]_vars

\* ------------------------------------------------- the lifecycle RPC calls
\* The ProcessManager and its processes: Find, ForEachProcess, Start, Stop,
\* Signal.  A process has a group, a state, and a program that can be
\* started or cannot; Start of one that cannot leaves it in state Fatal.

RtNames == {<<"a">>, <<"b">>}
RtGroups == {<<"g">>, <<"h">>}
SignalNames == {"HUP", "INT", "QUIT", "KILL", "USR1", "USR2", "TERM", "hup", ""}
SUCCESS == "SUCCESS"

\* toSignal that knows no USR2
toSignalNoUSR2(signalName) ==
    IF signalName = "HUP" THEN [sig |-> "SIGHUP", err |-> FALSE]
    ELSE IF signalName = "INT" THEN [sig |-> "SIGINT", err |-> FALSE]
    ELSE IF signalName = "QUIT" THEN [sig |-> "SIGQUIT", err |-> FALSE]
    ELSE IF signalName = "KILL" THEN [sig |-> "SIGKILL", err |-> FALSE]
    ELSE IF signalName = "USR1" THEN [sig |-> "SIGUSR1", err |-> FALSE]
    ELSE [sig |-> "SIGTERM", err |-> FALSE]

\* toSignal: the signal and the error, which is nil
toSignal(signalName) ==
    IF signalName = "HUP" THEN [sig |-> "SIGHUP", err |-> FALSE]
    ELSE IF signalName = "INT" THEN [sig |-> "SIGINT", err |-> FALSE]
    ELSE IF signalName = "QUIT" THEN [sig |-> "SIGQUIT", err |-> FALSE]
    ELSE IF signalName = "KILL" THEN [sig |-> "SIGKILL", err |-> FALSE]
    ELSE IF signalName = "USR1" THEN [sig |-> "SIGUSR1", err |-> FALSE]
    ELSE IF signalName = "USR2" THEN [sig |-> "SIGUSR2", err |-> FALSE]
    ELSE [sig |-> "SIGTERM", err |-> FALSE]

\* the call toSignal(args.Signal) and what it returned
Signalled(signalName) ==
    [name |-> signalName, sig |-> toSignal(signalName).sig,
     err |-> toSignal(signalName).err]

\* ProcessManager.Find: whether there is a process of the name
Find(rt, name) == name \in DOMAIN rt

\* Process.Start
ProcStart(rt, n) ==
    [rt EXCEPT ![n].state = IF rt[n].startable THEN "Running" ELSE "Fatal"]

\* Process.Stop
ProcStop(rt, n) ==
    [rt EXCEPT ![n].state = IF @ = "Running" THEN "Stopped" ELSE @]

\* Process.Signal: the signal is sent; the state is what it was
ProcSignal(rt, n) == rt

\* ProcessManager.StopAllProcesses
StopAll(rt) ==
    [n \in DOMAIN rt |-> [rt[n] EXCEPT !.state = IF @ = "Running" THEN "Stopped" ELSE @]]

\* getProcessInfo: Name, Group and State of the descriptor
getProcessInfo(rt, n) == [Name |-> n, Group |-> rt[n].group, State |-> rt[n].state]

Apply(op, rt, n) ==
    IF op = "start" THEN ProcStart(rt, n)
    ELSE IF op = "stop" THEN ProcStop(rt, n)
    ELSE IF op = "signal" THEN ProcSignal(rt, n)
    ELSE rt

RECURSIVE ForEachProcess(_, _, _, _)
\* ProcessManager.ForEachProcess over the processes in the order order, with
\* the function the handlers pass: op on the processes of matched, then the
\* descriptor and the result record appended to the reply
ForEachProcess(order, matched, op, acc) ==
    IF order = <<>> THEN acc
    ELSE LET n == Head(order)
         IN  IF n \in matched
             THEN LET rt1 == Apply(op, acc.rt, n)
                  IN  ForEachProcess(Tail(order), matched, op,
                         [rt |-> rt1,
                          issued |-> acc.issued \cup {n},
                          infos |-> Append(acc.infos, getProcessInfo(rt1, n)),
                          results |-> Append(acc.results,
                                             [Name |-> n, Group |-> rt1[n].group,
                                              Status |-> SUCCESS,
                                              Description |-> "OK"])])
             ELSE ForEachProcess(Tail(order), matched, op, acc)

RECURSIVE ForEachUntilFailure(_, _, _, _)
\* ForEachProcess that ends at the first process the operation fails on
ForEachUntilFailure(order, matched, op, acc) ==
    IF order = <<>> THEN acc
    ELSE LET n == Head(order)
             rt1 == Apply(op, acc.rt, n)
             acc1 == [rt |-> rt1,
                      issued |-> acc.issued \cup {n},
                      infos |-> Append(acc.infos, getProcessInfo(rt1, n)),
                      results |-> Append(acc.results,
                                         [Name |-> n, Group |-> rt1[n].group,
                                          Status |-> SUCCESS, Description |-> "OK"])]
         IN  IF rt1[n].state = "Fatal" THEN acc1
             ELSE ForEachUntilFailure(Tail(order), matched, op, acc1)

Acc(rt) == [rt |-> rt, issued |-> {}, infos |-> <<>>, results |-> <<>>]

\* the processes of a group: proc.GetGroup() == args.Name
InGroup(rt, group) == {n \in DOMAIN rt : rt[n].group = group}

\* what a lifecycle call leaves alone
RpcFrame ==
    UNCHANGED <<configVars, mgrVars, restarting, httpUp, daemon, localVars,
                historyVars, loadVars, diffVars, shut, clientVars>>

RpcInit ==
    /\ DaemonIdle
    /\ pc = [p \in Procs |-> "idle"]
    /\ LoadIdle
    /\ DiffIdle
    /\ RpcIdle
    /\ ClientIdle

\* ProcessManager.CreateProcess for a program that has no process yet
CreateProcess(name, group, startable) ==
    /\ daemon = "up"
    /\ name \notin DOMAIN runtime
    /\ runtime' = Put(runtime, name,
                      [group |-> group, startable |-> startable, state |-> "Stopped"])
    /\ rpc' = NoRpc
    /\ RpcFrame

\* Supervisor.StartProcess
StartProcess(name) ==
    /\ daemon = "up"
    /\ IF ~Find(runtime, name)
       THEN /\ rpc' = [NoRpc EXCEPT !.op = "StartProcess", !.name = name, !.err = TRUE]
            /\ UNCHANGED runtime
       ELSE /\ runtime' = ProcStart(runtime, name)
            /\ rpc' = [NoRpc EXCEPT !.op = "StartProcess", !.name = name,
                                    !.issued = {name}, !.Success = TRUE]
    /\ RpcFrame

\* StopProcess that replies Success without an error when there is no
\* process of the name
StopProcessNoError(name) ==
    /\ daemon = "up"
    /\ IF ~Find(runtime, name)
       THEN /\ rpc' = [NoRpc EXCEPT !.op = "StopProcess", !.name = name,
                                    !.Success = TRUE]
            /\ UNCHANGED runtime
       ELSE /\ runtime' = ProcStop(runtime, name)
            /\ rpc' = [NoRpc EXCEPT !.op = "StopProcess", !.name = name,
                                    !.issued = {name}, !.Success = TRUE]
    /\ RpcFrame

\* Supervisor.StopProcess
StopProcess(name) ==
    /\ daemon = "up"
    /\ IF ~Find(runtime, name)
       THEN /\ rpc' = [NoRpc EXCEPT !.op = "StopProcess", !.name = name, !.err = TRUE]
            /\ UNCHANGED runtime
       ELSE /\ runtime' = ProcStop(runtime, name)
            /\ rpc' = [NoRpc EXCEPT !.op = "StopProcess", !.name = name,
                                    !.issued = {name}, !.Success = TRUE]
    /\ RpcFrame

\* Supervisor.SignalProcess; reply.Success is not set
SignalProcess(name, signal) ==
    /\ daemon = "up"
    /\ IF ~Find(runtime, name)
       THEN /\ rpc' = [NoRpc EXCEPT !.op = "SignalProcess", !.name = name, !.err = TRUE]
            /\ UNCHANGED runtime
       ELSE /\ runtime' = ProcSignal(runtime, name)
            /\ rpc' = [NoRpc EXCEPT !.op = "SignalProcess", !.name = name,
                                    !.sig = Signalled(signal), !.issued = {name}]
    /\ RpcFrame

\* SendProcessStdin without the test of the state
SendProcessStdinAnyState(name) ==
    /\ daemon = "up"
    /\ IF ~Find(runtime, name)
       THEN rpc' = [NoRpc EXCEPT !.op = "SendProcessStdin", !.name = name,
                                 !.err = TRUE, !.notRunning = TRUE]
       ELSE \E failed \in BOOLEAN :
               rpc' = [NoRpc EXCEPT !.op = "SendProcessStdin", !.name = name,
                                    !.err = failed, !.Success = ~failed,
                                    !.issued = IF failed THEN {} ELSE {name}]
    /\ UNCHANGED runtime
    /\ RpcFrame

\* Supervisor.SendProcessStdin: the error is NOT_RUNNING when there is no
\* process of the name or it is not running; else the error is that of
\* Process.SendProcessStdin, which has written the characters or has failed
SendProcessStdin(name) ==
    /\ daemon = "up"
    /\ IF ~Find(runtime, name)
       THEN rpc' = [NoRpc EXCEPT !.op = "SendProcessStdin", !.name = name,
                                 !.err = TRUE, !.notRunning = TRUE]
       ELSE IF runtime[name].state # "Running"
       THEN rpc' = [NoRpc EXCEPT !.op = "SendProcessStdin", !.name = name,
                                 !.err = TRUE, !.notRunning = TRUE]
       ELSE \E failed \in BOOLEAN :
               rpc' = [NoRpc EXCEPT !.op = "SendProcessStdin", !.name = name,
                                    !.err = failed, !.Success = ~failed,
                                    !.issued = IF failed THEN {} ELSE {name}]
    /\ UNCHANGED runtime
    /\ RpcFrame

\* StartProcessGroup without the test of the group
StartProcessGroupAll(group) ==
    /\ daemon = "up"
    /\ \E order \in Perms(DOMAIN runtime) :
          LET r == ForEachProcess(order, DOMAIN runtime, "start", Acc(runtime))
          IN  /\ runtime' = r.rt
              /\ rpc' = [NoRpc EXCEPT !.op = "StartProcessGroup", !.name = group,
                                      !.issued = r.issued, !.order = order,
                                      !.infos = r.infos]
    /\ RpcFrame

\* Supervisor.StartProcessGroup
StartProcessGroup(group) ==
    /\ daemon = "up"
    /\ \E order \in Perms(DOMAIN runtime) :
          LET r == ForEachProcess(order, InGroup(runtime, group), "start", Acc(runtime))
          IN  /\ runtime' = r.rt
              /\ rpc' = [NoRpc EXCEPT !.op = "StartProcessGroup", !.name = group,
                                      !.issued = r.issued, !.order = order,
                                      !.infos = r.infos]
    /\ RpcFrame

\* Supervisor.StopProcessGroup
StopProcessGroup(group) ==
    /\ daemon = "up"
    /\ \E order \in Perms(DOMAIN runtime) :
          LET r == ForEachProcess(order, InGroup(runtime, group), "stop", Acc(runtime))
          IN  /\ runtime' = r.rt
              /\ rpc' = [NoRpc EXCEPT !.op = "StopProcessGroup", !.name = group,
                                      !.issued = r.issued, !.order = order,
                                      !.infos = r.infos]
    /\ RpcFrame

\* Supervisor.SignalProcessGroup: one ForEachProcess that signals, a second
\* one that fills the reply
SignalProcessGroup(group, signal) ==
    /\ daemon = "up"
    /\ \E order \in Perms(DOMAIN runtime), order2 \in Perms(DOMAIN runtime) :
          LET r == ForEachProcess(order, InGroup(runtime, group), "signal", Acc(runtime))
              r2 == ForEachProcess(order2, InGroup(r.rt, group), "none", Acc(r.rt))
          IN  /\ runtime' = r.rt
              /\ rpc' = [NoRpc EXCEPT !.op = "SignalProcessGroup", !.name = group,
                                      !.sig = Signalled(signal),
                                      !.issued = r.issued, !.order = order2,
                                      !.infos = r2.infos]
    /\ RpcFrame

\* StartAllProcesses that ends at the first process that does not start
StartAllUntilFailure ==
    /\ daemon = "up"
    /\ \E order \in Perms(DOMAIN runtime) :
          LET r == ForEachUntilFailure(order, DOMAIN runtime, "start", Acc(runtime))
          IN  /\ runtime' = r.rt
              /\ rpc' = [NoRpc EXCEPT !.op = "StartAllProcesses", !.issued = r.issued,
                                      !.order = order, !.results = r.results]
    /\ RpcFrame

\* Supervisor.StartAllProcesses
StartAllProcesses ==
    /\ daemon = "up"
    /\ \E order \in Perms(DOMAIN runtime) :
          LET r == ForEachProcess(order, DOMAIN runtime, "start", Acc(runtime))
          IN  /\ runtime' = r.rt
              /\ rpc' = [NoRpc EXCEPT !.op = "StartAllProcesses", !.issued = r.issued,
                                      !.order = order, !.results = r.results]
    /\ RpcFrame

\* Supervisor.StopAllProcesses
StopAllProcesses ==
    /\ daemon = "up"
    /\ \E order \in Perms(DOMAIN runtime) :
          LET r == ForEachProcess(order, DOMAIN runtime, "stop", Acc(runtime))
          IN  /\ runtime' = r.rt
              /\ rpc' = [NoRpc EXCEPT !.op = "StopAllProcesses", !.issued = r.issued,
                                      !.order = order, !.results = r.results]
    /\ RpcFrame

\* Shutdown with the goroutine that exits started in place of the stop
ShutdownExitFirst ==
    /\ daemon = "up"
    /\ shut.pc = "idle"
    /\ shut' = [shut EXCEPT !.pc = "stopped", !.Ret = TRUE, !.exiter = "sleep"]
    /\ rpc' = NoRpc
    /\ UNCHANGED <<configVars, mgrVars, restarting, httpUp, daemon, localVars,
                   historyVars, loadVars, diffVars, runtime, clientVars>>

\* Supervisor.Shutdown: reply.Ret = true; s.procMgr.StopAllProcesses()
ShutdownStop ==
    /\ daemon = "up"
    /\ shut.pc = "idle"
    /\ runtime' = StopAll(runtime)
    /\ shut' = [shut EXCEPT !.pc = "stopped", !.Ret = TRUE, !.stopped = TRUE]
    /\ rpc' = NoRpc
    /\ UNCHANGED <<configVars, mgrVars, restarting, httpUp, daemon, localVars,
                   historyVars, loadVars, diffVars, clientVars>>

\* Supervisor.Shutdown: go func() { ... }(); return nil
ShutdownReturn ==
    /\ daemon = "up"
    /\ shut.pc = "stopped"
    /\ shut' = [shut EXCEPT !.pc = "idle",
                            !.exiter = IF @ = "none" THEN "sleep" ELSE @]
    /\ rpc' = NoRpc
    /\ UNCHANGED <<configVars, mgrVars, restarting, httpUp, daemon, localVars,
                   historyVars, loadVars, diffVars, runtime, clientVars>>

\* the goroutine of Shutdown: time.Sleep(1 * time.Second)
ExitSleep ==
    /\ daemon = "up"
    /\ shut.exiter = "sleep"
    /\ shut' = [shut EXCEPT !.exiter = "woke"]
    /\ UNCHANGED <<configVars, mgrVars, restarting, httpUp, daemon, localVars,
                   historyVars, loadVars, diffVars, runtime, rpc, clientVars>>

\* the goroutine of Shutdown: os.Exit(0)
ExitNow ==
    /\ daemon = "up"
    /\ shut.exiter = "woke"
    /\ daemon' = "exit"
    /\ UNCHANGED <<configVars, mgrVars, restarting, httpUp, localVars,
                   historyVars, loadVars, diffVars, rpcVars, clientVars>>

RpcNext ==
    \/ \E name \in RtNames, group \in RtGroups, startable \in BOOLEAN :
          CreateProcess(name, group, startable)
    \/ \E name \in RtNames : StartProcess(name)
    \/ \E name \in RtNames : StopProcess(name)
    \/ \E name \in RtNames, signal \in SignalNames : SignalProcess(name, signal)
    \/ \E name \in RtNames : SendProcessStdin(name)
    \/ \E group \in RtGroups : StartProcessGroup(group)
    \/ \E group \in RtGroups : StopProcessGroup(group)
    \/ \E group \in RtGroups, signal \in SignalNames : SignalProcessGroup(group, signal)
    \/ StartAllProcesses
    \/ StopAllProcesses
    \/ ShutdownStop
    \/ ShutdownReturn
    \/ ExitSleep
    \/ ExitNow

RpcSpec == RpcInit /\ [][RpcNext]_vars

SingleOps == {"StartProcess", "StopProcess", "SignalProcess"}
GroupOps == {"StartProcessGroup", "StopProcessGroup", "SignalProcessGroup"}
AllOps == {"StartAllProcesses", "StopAllProcesses"}

\* C12: StartProcess, StopProcess and SignalProcess with a name that is the
\* name of no process return an error, start, stop and signal nothing, and
\* leave the processes and their states as they are.
C12_NotFound ==
    [][(rpc'.op \in SingleOps /\ rpc'.name \notin DOMAIN runtime) =>
          (rpc'.err /\ ~rpc'.Success /\ rpc'.issued = {} /\ UNCHANGED runtime)]_vars

\* a call has found no process of its name, with a process running
C12_Witness ==
    rpc.op \in SingleOps /\ rpc.err /\ rpc.name \notin DOMAIN runtime
        /\ \E n \in DOMAIN runtime : runtime[n].state = "Running"

\* the names of a list of descriptors or result records
NamesOf(list) == [i \in 1..Len(list) |-> list[i].Name]

\* C13: StartProcessGroup, StopProcessGroup and SignalProcessGroup with
\* group G start, stop or signal the processes of group G and no other,
\* return no error, and reply the descriptor of each process of G, once;
\* with no process in G the list is empty.
C13_GroupFanOut ==
    rpc.op \in GroupOps =>
        /\ ~rpc.err
        /\ rpc.issued = InGroup(runtime, rpc.name)
        /\ Range(NamesOf(rpc.infos)) = InGroup(runtime, rpc.name)
        /\ Len(rpc.infos) = Cardinality(InGroup(runtime, rpc.name))
        /\ \A i \in 1..Len(rpc.infos) : rpc.infos[i].Group = rpc.name

\* a group call on a group with a process, with a process outside it
C13_Witness ==
    /\ rpc.op \in GroupOps
    /\ Len(rpc.infos) = 1
    /\ DOMAIN runtime \ InGroup(runtime, rpc.name) # {}

\* C14: StartAllProcesses and StopAllProcesses return no error and reply one
\* result record for each process, in the order ForEachProcess ranges over
\* them, and start or stop every process, those after one that did not
\* start included.
C14_AllFanOut ==
    rpc.op \in AllOps =>
        /\ ~rpc.err
        /\ NamesOf(rpc.results) = rpc.order
        /\ Range(rpc.order) = DOMAIN runtime
        /\ Len(rpc.order) = Cardinality(DOMAIN runtime)
        /\ rpc.issued = DOMAIN runtime

\* a StartAllProcesses whose first process did not start and whose second did
C14_Witness ==
    /\ rpc.op = "StartAllProcesses"
    /\ Len(rpc.results) >= 2
    /\ runtime[rpc.results[1].Name].state = "Fatal"
    /\ runtime[rpc.results[2].Name].state = "Running"

\* C15: in the reply of StartAllProcesses and StopAllProcesses the record of
\* a process has status SUCCESS when the start or stop of that process
\* succeeded and a failure status when it did not.
C15_OutcomePerProcess ==
    rpc.op \in AllOps =>
        \A i \in 1..Len(rpc.results) :
            LET state == runtime[rpc.results[i].Name].state
                succeeded == IF rpc.op = "StartAllProcesses" THEN state = "Running"
                             ELSE state # "Running"
            IN  (rpc.results[i].Status = SUCCESS) <=> succeeded

\* C18: Shutdown replies Ret = true, and the daemon exits only when
\* StopAllProcesses of Shutdown has returned and the goroutine that exits has
\* slept.
C18_ExitAfterStop ==
    /\ [](daemon = "exit" => (shut.Ret /\ shut.stopped /\ shut.exiter = "woke"))
    /\ [](shut.exiter # "none" => (shut.Ret /\ shut.stopped))

\* the daemon has exited after a Shutdown that stopped a running process
C18_Witness ==
    daemon = "exit" /\ shut.stopped /\ \E n \in DOMAIN runtime : runtime[n].state = "Stopped"

\* --------------------------------------- the client's decoding of a reload
\* XMLRPCClient.ReloadConfig registers two functions with an
\* XMLProcessorManager and lets it walk the body of the reply.  The body is
\* one array; an item of it is an inner array of strings or a string that is
\* in no inner array.  The walk calls the leaf function for every string, in
\* the order of the body, and the non-leaf function at the end of every
\* inner array.

\* the most items of a body, and the most strings of an inner array
MaxItems == 4
MaxValues == 2

GroupNames == {"g1", "g2"}
InnerArray(values) == [array |-> TRUE, values |-> values]
BareLeaf(value) == [array |-> FALSE, values |-> <<value>>]
Items ==
    {InnerArray(v) : v \in UNION {[1..n -> GroupNames] : n \in 0..MaxValues}}
        \cup {BareLeaf("g1")}
Bodies == UNION {[1..n -> Items] : n \in 0..MaxItems}

\* the function given to AddNonLeafProcessor
nonLeafProcessor(d) ==
    IF d.hasValue
    THEN [d EXCEPT !.hasValue = FALSE]
    ELSE [d EXCEPT !.i = d.i + 1]

\* the function given to AddLeafProcessor
leafProcessor(d, value) ==
    LET i == d.i + 1
        e == [d EXCEPT !.hasValue = TRUE, !.i = i]
    IN  CASE i = 0 -> [e EXCEPT !.AddedGroup = Append(d.AddedGroup, value)]
          [] i = 1 -> [e EXCEPT !.ChangedGroup = Append(d.ChangedGroup, value)]
          [] i = 2 -> [e EXCEPT !.RemovedGroup = Append(d.RemovedGroup, value)]
          [] OTHER -> e

DecodeFrame ==
    UNCHANGED <<configVars, mgrVars, restarting, httpUp, daemon, localVars,
                historyVars, loadVars, diffVars, rpcVars>>

DecodeInit ==
    /\ DaemonIdle
    /\ pc = [p \in Procs |-> "idle"]
    /\ LoadIdle
    /\ DiffIdle
    /\ RpcIdle
    /\ ClientIdle

\* what url.Parse makes of the server URL: no URL, or one of this scheme
Urls == {"malformed", "http", "https", "unix", "ftp"}

\* what a post meets on its way: nothing, a request that cannot be made, a
\* connection that is refused, a write or a read that fails, a timeout
Failures == {"none", "request", "connect", "write", "read", "timeout"}
StatusCodes == {200, 204, 404, 500}

\* processBody is not called
NotCalled == [called |-> FALSE, procError |-> FALSE]

processResponse(status) ==
    IF status \div 100 # 2
    THEN [called |-> TRUE, procError |-> TRUE]
    ELSE [called |-> TRUE, procError |-> FALSE]

\* createHTTPRequest fails, or http.DefaultClient.Do fails, or the response
\* is there
postInetHTTP(failure, status) ==
    IF failure = "request" THEN NotCalled
    ELSE IF failure # "none" THEN NotCalled
    ELSE processResponse(status)

\* the dial fails, or createHTTPRequest, or req.Write, or http.ReadResponse,
\* or the response is there
postUnixHTTP(failure, status) ==
    IF failure \in {"connect", "timeout"} THEN NotCalled
    ELSE IF failure = "request" THEN NotCalled
    ELSE IF failure = "write" THEN NotCalled
    ELSE IF failure = "read" THEN NotCalled
    ELSE processResponse(status)

post(url, failure, status) ==
    IF url = "malformed" THEN NotCalled
    ELSE IF url \in {"http", "https"} THEN postInetHTTP(failure, status)
    ELSE IF url = "unix" THEN postUnixHTTP(failure, status)
    ELSE NotCalled

\* the operations that decode the body with xml.DecodeClientResponse
DecodingOps ==
    {"GetVersion", "GetAllProcessInfo", "ChangeProcessState",
     "ChangeAllProcessState", "Shutdown", "SignalProcess", "SignalAll",
     "GetProcessInfo"}

\* one of these operations, from its post to its return: err is procError
\* and, when that is nil, the error of xml.DecodeClientResponse
ClientCall ==
    /\ decoded.pc = "idle"
    /\ \E op \in DecodingOps, url \in Urls, failure \in Failures,
          status \in StatusCodes, decodeError \in BOOLEAN :
          LET p == post(url, failure, status)
          IN  /\ call' = [op |-> op, url |-> url, failure |-> failure,
                          status |-> status]
              /\ decoded' = [NoDecoded EXCEPT
                      !.pc = "done",
                      !.err = IF ~p.called THEN FALSE
                              ELSE IF p.procError THEN TRUE
                              ELSE decodeError]
    /\ UNCHANGED wire
    /\ DecodeFrame

\* XMLRPCClient.ReloadConfig up to the function given to post: the function
\* is not called, or it is called with an error, or the body of the reply
\* is there to walk
ClientReloadConfig ==
    /\ decoded.pc = "idle"
    /\ \E body \in Bodies, url \in Urls, failure \in Failures,
          status \in StatusCodes :
          LET p == post(url, failure, status)
              walk == p.called /\ ~p.procError
          IN  /\ call' = [op |-> "ReloadConfig", url |-> url,
                          failure |-> failure, status |-> status]
              /\ wire' = IF walk THEN body ELSE <<>>
              /\ decoded' = [NoDecoded EXCEPT
                                !.pc = IF walk THEN "walk" ELSE "done",
                                !.err = p.called /\ p.procError]
    /\ DecodeFrame

\* ProcessXML comes to a string of the body
ProcessLeaf ==
    /\ decoded.pc = "walk"
    /\ decoded.k <= Len(wire)
    /\ decoded.j <= Len(wire[decoded.k].values)
    /\ LET item == wire[decoded.k]
           d == leafProcessor(decoded, item.values[decoded.j])
       IN  decoded' = IF item.array
                      THEN [d EXCEPT !.j = decoded.j + 1]
                      ELSE [d EXCEPT !.k = decoded.k + 1, !.j = 1]
    /\ UNCHANGED <<wire, call>>
    /\ DecodeFrame

\* ProcessXML comes to the end of an inner array
ProcessNonLeaf ==
    /\ decoded.pc = "walk"
    /\ decoded.k <= Len(wire)
    /\ wire[decoded.k].array
    /\ decoded.j > Len(wire[decoded.k].values)
    /\ decoded' = [nonLeafProcessor(decoded) EXCEPT !.k = decoded.k + 1, !.j = 1]
    /\ UNCHANGED <<wire, call>>
    /\ DecodeFrame

\* ProcessXML is at the end of the body and ReloadConfig returns reply, err
ClientReturn ==
    /\ decoded.pc = "walk"
    /\ decoded.k > Len(wire)
    /\ decoded' = [decoded EXCEPT !.pc = "done"]
    /\ UNCHANGED <<wire, call>>
    /\ DecodeFrame

DecodeNext ==
    \/ ClientReloadConfig
    \/ ClientCall
    \/ ProcessLeaf
    \/ ProcessNonLeaf
    \/ ClientReturn

DecodeSpec == DecodeInit /\ [][DecodeNext]_vars

\* the inner arrays of a body
InnerArrays(body) == {k \in 1..Len(body) : body[k].array}

\* C19: of a body that is three inner arrays, ReloadConfig returns the
\* strings of the first as AddedGroup, of the second as ChangedGroup and of
\* the third as RemovedGroup, each in the order of the body.
C19_DecodeInOrder ==
    (decoded.pc = "done" /\ ~decoded.err /\ Len(wire) = 3
        /\ InnerArrays(wire) = 1..3) =>
        /\ decoded.AddedGroup = wire[1].values
        /\ decoded.ChangedGroup = wire[2].values
        /\ decoded.RemovedGroup = wire[3].values

\* C20: of a body with more than three inner arrays or with a string that is
\* in no inner array, ReloadConfig returns an error.
C20_MalformedReplyFails ==
    (decoded.pc = "done"
        /\ (Cardinality(InnerArrays(wire)) > 3 \/ InnerArrays(wire) # 1..Len(wire))) =>
        decoded.err

\* the post of a call met a failure of the transport: no URL or a scheme
\* that is not served, a failure on the way, or a status that is not 2xx
TransportFailure ==
    \/ call.url \notin {"http", "https", "unix"}
    \/ call.failure # "none"
    \/ call.status \div 100 # 2

\* C21: an operation of the client whose post met a failure of the transport
\* returns an error.
C21_TransportFailureReported ==
    (decoded.pc = "done" /\ call.op # "none" /\ TransportFailure) => decoded.err

\* ------------------------------------------------------- the included files
\* A path is a string of tokens: "/" separates its elements, a token that
\* begins with "/" is a root directory, "." is the dot of a file name.

Slash == "/"
Dot == "."
ConfD == ConfigFileDir \o <<Slash, "conf.d">>

\* filepath.IsAbs
IsAbs(f) == f # <<>> /\ Head(f) \in {"/etc", "/opt"}

\* the place of the last separator of a path, 0 when it has none
LastSlash(f) ==
    IF \A i \in 1..Len(f) : f[i] # Slash THEN 0
    ELSE CHOOSE i \in 1..Len(f) :
             f[i] = Slash /\ \A k \in (i + 1)..Len(f) : f[k] # Slash

\* filepath.Dir and filepath.Base
Dir(f) == IF LastSlash(f) = 0 THEN <<Dot>> ELSE SubSeq(f, 1, LastSlash(f) - 1)
Base(f) == SubSeq(f, LastSlash(f) + 1, Len(f))

RECURSIVE Join(_, _)
\* strings.Join
Join(pieces, sep) ==
    IF pieces = <<>> THEN <<>>
    ELSE IF Len(pieces) = 1 THEN Head(pieces)
    ELSE Head(pieces) \o <<sep>> \o Join(Tail(pieces), sep)

\* toRegexp: the pieces between the dots, "*" as ".*" and "?" as ".", joined
\* by an escaped dot
toRegexp(pattern) ==
    LET tmp == Split(pattern, Dot)
        star(t) == [i \in 1..Len(t) |-> IF t[i] = "*" THEN ".*"
                                        ELSE IF t[i] = "?" THEN "." ELSE t[i]]
    IN  Join([i \in 1..Len(tmp) |-> star(tmp[i])], "\\.")

RECURSIVE MatchHere(_, _)
\* the expression matches a prefix of s
MatchHere(re, s) ==
    IF re = <<>> THEN TRUE
    ELSE IF Head(re) = ".*"
         THEN \E k \in 0..Len(s) : MatchHere(Tail(re), SubSeq(s, k + 1, Len(s)))
    ELSE IF s = <<>> THEN FALSE
    ELSE IF Head(re) = "." THEN MatchHere(Tail(re), Tail(s))
    ELSE IF Head(re) = "\\." THEN Head(s) = Dot /\ MatchHere(Tail(re), Tail(s))
    ELSE Head(s) = Head(re) /\ MatchHere(Tail(re), Tail(s))

\* regexp.MatchString: the expression matches some part of s
MatchString(re, s) ==
    \E k \in 0..Len(s) : MatchHere(re, SubSeq(s, k + 1, Len(s)))

\* a file of the disk: its directory, its name and its sections
DiskFile(dir, name, sections) == [dir |-> dir, name |-> name, sections |-> sections]

\* the files there can be beside the root file, in the order of ioutil.ReadDir
Candidates ==
    << DiskFile(ConfigFileDir, <<"c", Dot, "conf">>, <<Plain(PROGRAM, "c")>>),
       DiskFile(ConfD, <<"a", Dot, "conf">>, <<Plain(PROGRAM, "a")>>),
       DiskFile(ConfD, <<"b", Dot, "conf">>, <<Plain(PROGRAM, "b")>>),
       DiskFile(ConfD, <<"d", Dot, "ini">>, <<Plain(PROGRAM, "d")>>),
       DiskFile(<<"/opt">>, <<"e", Dot, "conf">>, <<Plain(PROGRAM, "e")>>) >>

\* the values of the files key of the include section
Patterns ==
    { <<"conf.d", Slash, "*", Dot, "conf">>,
      ConfD \o <<Slash, "*", Dot, "conf">>,
      <<"*", Dot, "conf">>,
      <<"/opt", Slash, "?", Dot, "conf">> }

\* the root file with this value of files
RootFile(pattern) ==
    DiskFile(ConfigFileDir, <<"supervisord", Dot, "conf">>,
             <<Sec(<<"include">>, [files |-> pattern]), Supervisord("id1")>>)

\* Config.getIncludeFiles for one value of files, on a disk with the root
\* file and the candidates of tree
getIncludeFiles(f, tree) ==
    LET dir == IF IsAbs(f) THEN Dir(f) ELSE ConfigFileDir
        goPattern == toRegexp(Base(f))
        fileInfos == SelectSeq(<<RootFile(f)>> \o Candidates,
                               LAMBDA file : file = RootFile(f) \/ file \in tree)
    IN  SelectSeq(fileInfos,
                  LAMBDA file : file.dir = dir /\ MatchString(goPattern, file.name))

RECURSIVE AppendFiles(_, _)
\* ini.File.Append of files: a section that is there already is not added
\* again
AppendFiles(secs, files) ==
    IF files = <<>> THEN secs
    ELSE LET more == SelectSeq(Head(files).sections,
                               LAMBDA sec : \A i \in 1..Len(secs) : secs[i].name # sec.name)
         IN  AppendFiles(secs \o more, Tail(files))

IncludeInit ==
    /\ DaemonIdle
    /\ pc = [p \in Procs |-> "idle"]
    /\ LoadIdle
    /\ DiffIdle
    /\ RpcIdle
    /\ ClientIdle

\* Config.Load of a root file with an include section
IncludeLoad ==
    /\ ~inc.done
    /\ \E f \in Patterns, tree \in SUBSET Range(Candidates) :
          LET includeFiles == getIncludeFiles(f, tree)
              sections == AppendFiles(RootFile(f).sections, includeFiles)
              r == parse(config, sections)
          IN  /\ entries' = r.c.entries
              /\ programGroup' = r.c.programGroup
              /\ lastCfg' = sections
              /\ inc' = [done |-> TRUE, pattern |-> f, tree |-> tree,
                         files |-> includeFiles]
    /\ UNCHANGED <<nLoads, mgrVars, restarting, httpUp, daemon, localVars,
                   historyVars, diffVars, rpcVars, clientVars>>

IncludeNext == IncludeLoad

IncludeSpec == IncludeInit /\ [][IncludeNext]_vars

\* the files of the disk in conf.d whose name ends in .conf
InConfD == {file \in inc.tree : file.dir = ConfD /\ file.name[Len(file.name)] = "conf"}

\* C22: when files is conf.d/*.conf and conf.d holds two files of that form,
\* the store has the sections of both and those of the root file, and the
\* files included are files of conf.d.
C22_IncludeRelativeDir ==
    (inc.done /\ inc.pattern = <<"conf.d", Slash, "*", Dot, "conf">>
        /\ Cardinality(InConfD) = 2) =>
        /\ \A file \in InConfD : \A i \in 1..Len(file.sections) :
              TrimPrefix(file.sections[i].name) \in ProgramNameSet(config)
        /\ <<"supervisord">> \in DOMAIN entries
        /\ \A i \in 1..Len(inc.files) : inc.files[i].dir = ConfD

\* ----------------------------------------- more of the lifecycle RPC calls

SignalOfName ==
    [n \in {"HUP", "INT", "QUIT", "KILL", "USR1", "USR2"} |-> "SIG" \o n]

C30_SuccessIffNoError ==
    rpc.op \in SingleOps => (rpc.Success <=> ~rpc.err)

\* ------------------------------------------------- more of the sequential load

\* the (program, group) pairs the group: sections of the file f declare
Declared(f) ==
    {pg \in UNION {{<<p, TrimPrefix(sec.name)>> :
                       p \in Range(Split(sec.keys["programs"], ","))} :
                   sec \in {x \in SectionsOf(f) : HasPrefix(x.name, GROUP)}} : TRUE}

\* C25: after a load, a program of the program-to-group mapping is mapped to
\* a group that a group: section of the file of that load declares for it,
\* or to its own name.
C25_GroupIndexRebuilt ==
    daemon = "up" =>
        \A p \in DOMAIN programGroup :
            programGroup[p] = p \/ <<p, programGroup[p]>> \in Declared(lastCfg)

\* C26: after a load, the entry of a group: section or of the supervisord
\* section of the file of that load holds the keys of that section and no
\* other.
C26_KeysBuiltFresh ==
    (daemon = "up" /\ nLoads >= 1) =>
        \A sec \in SectionsOf(lastCfg) :
            (HasPrefix(sec.name, GROUP) \/ sec.name = <<"supervisord">>) =>
                /\ sec.name \in DOMAIN entries
                /\ DOMAIN entries[sec.name].keyValues = DOMAIN sec.keys

\* the groups the file f declares for the program of the section named name
GroupsFor(f, name) == {pg[2] : pg \in {x \in Declared(f) : x[1] = TrimPrefix(name)}}

\* C27: after a load, the group of the entry of a program of the file of
\* that load is the group a group: section of the file declares for the
\* program, wherever that section stands, or the name of the program when
\* none does.
C27_OneGroupAnyOrder ==
    (daemon = "up" /\ nLoads >= 1) =>
        \A k \in ProgramKeys(config) :
            (\E sec \in SectionsOf(lastCfg) : sec.name = entries[k].sec) =>
                IF GroupsFor(lastCfg, entries[k].sec) # {}
                THEN entries[k].Group \in GroupsFor(lastCfg, entries[k].sec)
                ELSE entries[k].Group = TrimPrefix(entries[k].sec)

\* the sections with numprocs > 1 whose process_name is absent or has no
\* process_num placeholder
Unnumbered(f) ==
    {sec \in SectionsOf(f) :
        /\ isProgramOrEventListener(sec).is
        /\ NumProcsOf(sec) > 1
        /\ \/ "process_name" \notin DOMAIN sec.keys
           \/ PNUM \notin Range(sec.keys["process_name"])}

\* C28: the load of a file with such a section completes, and the other
\* sections of the file are in the store.
C28_MissingPlaceholderOnlyWarns ==
    (nLoads >= 1 /\ Unnumbered(lastCfg) # {}) =>
        /\ daemon = "up"
        /\ \A sec \in SectionsOf(lastCfg) \ Unnumbered(lastCfg) :
              \E k \in DOMAIN entries : entries[k].sec = sec.name

\* C29: after a load, no two entries of the store have the same Name, and
\* every program: section of the file of that load has an entry that is a
\* program.
C29_NoCollision ==
    (daemon = "up" /\ nLoads >= 1) =>
        /\ \A k1, k2 \in DOMAIN entries :
              k1 # k2 => entries[k1].Name # entries[k2].Name
        /\ \A sec \in SectionsOf(lastCfg) :
              (HasPrefix(sec.name, PROGRAM) /\ sec \notin Unnumbered(lastCfg)
                  /\ NOBIND \notin Range(sec.keys["command"])) =>
                  \E k \in ProgramKeys(config) : entries[k].sec = sec.name

\* --------------------------------------- a signal call beside a reload
\* SignalProcessGroup and SignalAllProcesses call ForEachProcess twice: the
\* first call signals, the second collects the descriptors.  The handler
\* holds no lock over the two calls, and the createPrograms of a Reload that
\* runs beside it calls CreateProcess and Remove on the same ProcessManager.
\* Each call of the ProcessManager is one step.

SignalInit ==
    /\ DaemonIdle
    /\ pc = [p \in Procs |-> "idle"]
    /\ LoadIdle
    /\ DiffIdle
    /\ RpcIdle
    /\ ClientIdle

\* SignalProcessGroup, the first ForEachProcess: the processes of the group
\* are signalled
SignalPassGroup(group, signal) ==
    /\ rpc.pc # "signalled"
    /\ \E order \in Perms(DOMAIN runtime) :
          LET r == ForEachProcess(order, InGroup(runtime, group), "signal", Acc(runtime))
          IN  /\ runtime' = r.rt
              /\ rpc' = [NoRpc EXCEPT !.op = "SignalProcessGroup", !.pc = "signalled",
                                      !.name = group, !.sig = Signalled(signal),
                                      !.issued = r.issued]
    /\ RpcFrame

\* SignalAllProcesses, the first ForEachProcess: every process is signalled
SignalPassAll(signal) ==
    /\ rpc.pc # "signalled"
    /\ \E order \in Perms(DOMAIN runtime) :
          LET r == ForEachProcess(order, DOMAIN runtime, "signal", Acc(runtime))
          IN  /\ runtime' = r.rt
              /\ rpc' = [NoRpc EXCEPT !.op = "SignalAllProcesses", !.pc = "signalled",
                                      !.sig = Signalled(signal), !.issued = r.issued]
    /\ RpcFrame

\* the second ForEachProcess of either handler, and its return: the
\* descriptors of the processes there are now
DescribePass ==
    /\ rpc.pc = "signalled"
    /\ \E order \in Perms(DOMAIN runtime) :
          LET matched == IF rpc.op = "SignalProcessGroup"
                         THEN InGroup(runtime, rpc.name) ELSE DOMAIN runtime
              r == ForEachProcess(order, matched, "none", Acc(runtime))
          IN  rpc' = [rpc EXCEPT !.pc = "replied", !.order = order, !.infos = r.infos]
    /\ UNCHANGED runtime
    /\ RpcFrame

\* createPrograms of a Reload: s.procMgr.CreateProcess for a program that
\* has no process yet
ReloadCreate(name, group) ==
    /\ name \notin DOMAIN runtime
    /\ runtime' = Put(runtime, name,
                      [group |-> group, startable |-> TRUE, state |-> "Stopped"])
    /\ UNCHANGED rpc
    /\ RpcFrame

\* createPrograms of a Reload: s.procMgr.Remove for a removed program
ReloadRemove(name) ==
    /\ name \in DOMAIN runtime
    /\ runtime' = [n \in DOMAIN runtime \ {name} |-> runtime[n]]
    /\ UNCHANGED rpc
    /\ RpcFrame

SignalNext ==
    \/ \E group \in RtGroups, signal \in SignalNames : SignalPassGroup(group, signal)
    \/ \E signal \in SignalNames : SignalPassAll(signal)
    \/ DescribePass
    \/ \E name \in RtNames, group \in RtGroups : ReloadCreate(name, group)
    \/ \E name \in RtNames : ReloadRemove(name)

SignalSpec == SignalInit /\ [][SignalNext]_vars

\* C31: the processes the reply of SignalProcessGroup or SignalAllProcesses
\* describes are the processes the call has signalled, whatever processes a
\* Reload has created or removed between the two passes.
C31_DescribedAreSignalled ==
    rpc.pc = "replied" =>
        /\ Range(NamesOf(rpc.infos)) = rpc.issued
        /\ Len(rpc.infos) = Cardinality(rpc.issued)
====
